---- MODULE Spec2Model ----
(***************************************************************************)
(* A model of the os-release reader of sp-variant (src/rust/yai.rs):       *)
(* the line pattern RE_LINE, parse_line and parse.                         *)
(*                                                                         *)
(* A string is a sequence of characters; a character is a one-character    *)
(* TLA+ string.  Rust strings are UTF-8, and parse_line slices its input   *)
(* by byte offsets, so every character also has a width in bytes.          *)
(***************************************************************************)
EXTENDS Integers, Sequences, FiniteSets, TLC

VARIABLES
    line,       \* the argument of the parse_line call in progress
    out,        \* the value that call returned
    readable,   \* whether fs::read_to_string succeeds on the path
    text,       \* the contents of the file
    contents,   \* contents.lines() of parse, as a sequence of lines
    pos,        \* number of lines parse has handed to parse_line
    res,        \* the HashMap parse accumulates
    ret,        \* the value parse returned
    pc,         \* position of the caller
    config,     \* what repo add was given: noop, the repository, the host
    rpc,        \* position of cmd_repo_add
    calls,      \* the steps of repo add started so far, with their outcome
    fx          \* what the program did to the outside: processes, files

parseVars == <<line, out, readable, text, contents, pos, res, ret, pc>>

repoVars == <<config, rpc, calls, fx>>

vars == <<line, out, readable, text, contents, pos, res, ret, pc,
          config, rpc, calls, fx>>

----------------------------------------------------------------------------
(* Bounds of the explored inputs *)

MaxLineLen == 4
MaxValLen == 5
MaxFileLines == 3
MaxReqPackages == 2

----------------------------------------------------------------------------
(* Characters *)

SQ == "'"
DQ == "\""
BS == "\\"
NL == "\n"
CR == "\r"
TAB == "\t"
\* a character outside ASCII: two bytes in UTF-8
EACUTE == "U+00E9"

\* representatives of the class [A-Za-z0-9_] of varname
WordChars == {"a", "b", "Z", "0", "_"}

Alphabet == {"a", "=", " ", "#", SQ, DQ, BS, EACUTE}

\* char::len_utf8
Width(c) == IF c = EACUTE THEN 2 ELSE 1

\* \s of the regex crate
IsSpace(c) == c \in {" ", TAB, CR, NL}

\* a class that also lets a blank into the name: [A-Za-z0-9_ ]
IsWord_WithBlank(c) == c \in WordChars \cup {" "}

\* [A-Za-z0-9_]
IsWord(c) == c \in WordChars

\* a class of quotes wider than the two parse_line handles: ["'#]
IsQuote_AlsoHash(c) == c \in {SQ, DQ, "#"}

\* ["']
IsQuote(c) == c \in {SQ, DQ}

\* . of the regex crate: any character except a line feed
IsDot(c) == c # NL

----------------------------------------------------------------------------
(* Strings and their byte offsets *)

Sub(s, from, to) == [i \in 1..(to - from + 1) |-> s[from + i - 1]]

RECURSIVE ByteLen(_)
ByteLen(s) == IF s = <<>> THEN 0 ELSE Width(Head(s)) + ByteLen(Tail(s))

\* byte offset of the end of the first k characters of s
ByteOff(s, k) == ByteLen(Sub(s, 1, k))

\* str::is_char_boundary
IsCharBoundary(s, b) == \E k \in 0..Len(s) : ByteOff(s, k) = b

\* number of characters of s that lie before the char boundary b
CharsBefore(s, b) == CHOOSE k \in 0..Len(s) : ByteOff(s, k) = b

None == [some |-> FALSE, str |-> <<>>]
Some(s) == [some |-> TRUE, str |-> s]

\* str::find(char): the byte offset of the first occurrence, as an Option
\* carried in the field idx
Find(s, c) ==
    IF \E i \in 1..Len(s) : s[i] = c
    THEN [some |-> TRUE,
          idx |-> ByteOff(s, (CHOOSE i \in 1..Len(s) :
                                  s[i] = c /\ \A j \in 1..(i - 1) : s[j] # c) - 1)]
    ELSE [some |-> FALSE, idx |-> 0]

\* a search that takes a quote after a backslash for an escaped one
Contains_SkipsEscaped(s, c) ==
    \E i \in 1..Len(s) : s[i] = c /\ (i = 1 \/ s[i - 1] # BS)

\* str::contains(char)
Contains(s, c) == \E i \in 1..Len(s) : s[i] = c

\* str::get(lo..hi): None unless lo <= hi <= len and both are char boundaries
StrGet(s, lo, hi) ==
    IF lo <= hi /\ hi <= ByteLen(s) /\ IsCharBoundary(s, lo) /\ IsCharBoundary(s, hi)
    THEN Some(Sub(s, CharsBefore(s, lo) + 1, CharsBefore(s, hi)))
    ELSE None

\* &s[..hi]
SliceTo(s, hi) == Sub(s, 1, CharsBefore(s, hi))

\* String::replace_range(..hi, "")
DropTo(s, hi) == Sub(s, CharsBefore(s, hi) + 1, Len(s))

----------------------------------------------------------------------------
(* RE_LINE *)

\* a first alternative without the leading blanks: ^ (?: \# .* )? $
CommentMatch_NoLeadingBlanks(l) ==
    \/ l = <<>>
    \/ l[1] = "#" /\ \A i \in 2..Len(l) : IsDot(l[i])

\* the first alternative: ^ \s* (?: \# .* )? $
CommentMatch(l) ==
    \E k \in 0..Len(l) :
        /\ \A i \in 1..k : IsSpace(l[i])
        /\ \/ k = Len(l)
           \/ /\ l[k + 1] = "#"
              /\ \A i \in (k + 2)..Len(l) : IsDot(l[i])

\* every way the second alternative matches the whole line: n characters of
\* varname, the '=', o characters of oquot, k of quoted, c of cquot
VarMatches(l) ==
    {m \in [n : 1..Len(l), o : {0, 1}, k : 0..Len(l), c : {0, 1}] :
        /\ m.n + 1 + m.o + m.k + m.c = Len(l)
        /\ \A i \in 1..m.n : IsWord(l[i])
        /\ l[m.n + 1] = "="
        /\ m.o = 1 => IsQuote(l[m.n + 2])
        /\ \A i \in (m.n + 2 + m.o)..(m.n + 1 + m.o + m.k) : IsDot(l[i])
        /\ m.c = 1 => IsQuote(l[Len(l)])}

\* the order of a pattern whose opening quote is lazy: (?P<oquot> ["'] )??
Prefers_LazyOquot(m1, m2) ==
    \/ m1.n > m2.n
    \/ m1.n = m2.n /\ m1.o < m2.o
    \/ m1.n = m2.n /\ m1.o = m2.o /\ m1.k < m2.k
    \/ m1.n = m2.n /\ m1.o = m2.o /\ m1.k = m2.k /\ m1.c >= m2.c

\* the order of a pattern whose quoted part is greedy: (?P<quoted> .* )
Prefers_GreedyQuoted(m1, m2) ==
    \/ m1.n > m2.n
    \/ m1.n = m2.n /\ m1.o > m2.o
    \/ m1.n = m2.n /\ m1.o = m2.o /\ m1.k > m2.k
    \/ m1.n = m2.n /\ m1.o = m2.o /\ m1.k = m2.k /\ m1.c >= m2.c

\* the order in which the regex crate tries them (leftmost-first): varname
\* and the two optional quotes are greedy, quoted is lazy
Prefers(m1, m2) ==
    \/ m1.n > m2.n
    \/ m1.n = m2.n /\ m1.o > m2.o
    \/ m1.n = m2.n /\ m1.o = m2.o /\ m1.k < m2.k
    \/ m1.n = m2.n /\ m1.o = m2.o /\ m1.k = m2.k /\ m1.c >= m2.c

NoCaptures ==
    [matched |-> FALSE, comment |-> None, varname |-> <<>>, full |-> <<>>,
     oquot |-> None, quoted |-> <<>>, cquot |-> None]

\* Regex::captures
Captures(l) ==
    IF CommentMatch(l)
    THEN [NoCaptures EXCEPT !.matched = TRUE, !.comment = Some(l)]
    ELSE IF VarMatches(l) = {}
    THEN NoCaptures
    ELSE LET m == CHOOSE m1 \in VarMatches(l) :
                      \A m2 \in VarMatches(l) : Prefers(m1, m2)
             v == m.n + 2    \* where the value starts
         IN  [matched |-> TRUE,
              comment |-> None,
              varname |-> Sub(l, 1, m.n),
              full |-> Sub(l, v, Len(l)),
              oquot |-> IF m.o = 1 THEN Some(<<l[v]>>) ELSE None,
              quoted |-> Sub(l, v + m.o, v + m.o + m.k - 1),
              cquot |-> IF m.c = 1 THEN Some(<<l[Len(l)]>>) ELSE None]

----------------------------------------------------------------------------
(* parse_line *)

Ignored == [kind |-> "Ignored", name |-> <<>>, value |-> <<>>, line |-> <<>>]
Entry(n, v) == [kind |-> "Entry", name |-> n, value |-> v, line |-> <<>>]
YAIError(k, l) == [kind |-> k, name |-> <<>>, value |-> <<>>, line |-> l]
Panic(l) == [kind |-> "Panic", name |-> <<>>, value |-> <<>>, line |-> l]

ErrorKinds == {"BackslashAtEnd", "BadLine", "QuoteInQuoted", "MismatchedQuotes"}

\* a loop that copies a backslash it cannot pair instead of failing
RECURSIVE Unescape_KeepsLastBackslash(_, _)
Unescape_KeepsLastBackslash(quoted, r) ==
    IF quoted = <<>>
    THEN [ok |-> TRUE, panic |-> FALSE, res |-> r]
    ELSE LET f == Find(quoted, BS)
         IN  IF f.some
             THEN LET qchar == StrGet(quoted, f.idx + 1, f.idx + 2)
                  IN  IF qchar.some
                      THEN Unescape_KeepsLastBackslash(
                               DropTo(quoted, f.idx + 2),
                               r \o SliceTo(quoted, f.idx) \o qchar.str)
                      ELSE [ok |-> TRUE, panic |-> FALSE, res |-> r \o quoted]
             ELSE [ok |-> TRUE, panic |-> FALSE, res |-> r \o quoted]

\* &s[..hi] and replace_range(..hi, "") panic unless hi is a char boundary
\* of s (which also puts it within the string)
SliceInRange(s, hi) == IsCharBoundary(s, hi)

\* the while loop of parse_line: quoted is what is left to decode, r the
\* decoded text so far; panic tells that a slice was out of range
RECURSIVE Unescape(_, _)
Unescape(quoted, r) ==
    IF quoted = <<>>
    THEN [ok |-> TRUE, panic |-> FALSE, res |-> r]
    ELSE LET f == Find(quoted, BS)
         IN  IF f.some
             THEN LET qchar == StrGet(quoted, f.idx + 1, f.idx + 2)
                  IN  IF qchar.some
                      THEN IF /\ SliceInRange(quoted, f.idx)
                              /\ SliceInRange(quoted, f.idx + 2)
                           THEN Unescape(DropTo(quoted, f.idx + 2),
                                         r \o SliceTo(quoted, f.idx)
                                           \o qchar.str)
                           ELSE [ok |-> FALSE, panic |-> TRUE, res |-> <<>>]
                      ELSE [ok |-> FALSE, panic |-> FALSE, res |-> <<>>]
             ELSE Unescape(<<>>, r \o quoted)

\* a single-quoted branch that decodes escapes as the other two do
SingleQuoted_Unescapes(caps, l) ==
    IF Contains(caps.quoted, SQ) THEN YAIError("QuoteInQuoted", l)
    ELSE IF caps.cquot # caps.oquot THEN YAIError("MismatchedQuotes", l)
    ELSE LET u == Unescape_KeepsLastBackslash(caps.quoted, <<>>)
         IN  Entry(caps.varname, u.res)

\* a single-quoted branch that compares the quotes first
SingleQuoted_MismatchFirst(caps, l) ==
    IF caps.cquot # caps.oquot THEN YAIError("MismatchedQuotes", l)
    ELSE IF Contains(caps.quoted, SQ) THEN YAIError("QuoteInQuoted", l)
    ELSE Entry(caps.varname, caps.quoted)

\* the body of: if let Some("'") = oquot
SingleQuoted(caps, l) ==
    IF Contains(caps.quoted, SQ) THEN YAIError("QuoteInQuoted", l)
    ELSE IF caps.cquot # caps.oquot THEN YAIError("MismatchedQuotes", l)
    ELSE Entry(caps.varname, caps.quoted)

\* the text given to the while loop, then the loop
Escaped(caps, l) ==
    IF caps.oquot = Some(<<DQ>>) /\ caps.cquot # caps.oquot
    THEN YAIError("MismatchedQuotes", l)
    ELSE IF caps.oquot.some /\ caps.oquot # Some(<<DQ>>)
    THEN Panic(l)
    ELSE LET quoted == IF caps.oquot.some THEN caps.quoted ELSE caps.full
             u == Unescape(quoted, <<>>)
         IN  IF u.panic THEN Panic(l)
             ELSE IF u.ok THEN Entry(caps.varname, u.res)
             ELSE YAIError("BackslashAtEnd", l)

parse_line(l) ==
    LET caps == Captures(l)
    IN  IF ~caps.matched THEN YAIError("BadLine", l)
        ELSE IF caps.comment.some THEN Ignored
        ELSE IF caps.oquot = Some(<<SQ>>) THEN SingleQuoted(caps, l)
        ELSE Escaped(caps, l)

----------------------------------------------------------------------------
(* The caller of parse_line on one line *)

Strings(S, n) == UNION {[1..k -> S] : k \in 0..n}

\* the lines explored: every short line, and every longer value of one name
LineInputs ==
    Strings(Alphabet, MaxLineLen)
        \cup {<<"a", "=">> \o v : v \in Strings(Alphabet, MaxValLen)}

NoOut == [kind |-> "NoOut", name |-> <<>>, value |-> <<>>, line |-> <<>>]

\* repo add is not running
NoConfig ==
    [noop |-> FALSE, repo |-> "None", req_packages |-> <<>>, rpmkeys |-> FALSE]

RepoIdle ==
    /\ config = NoConfig
    /\ rpc = "idle"
    /\ calls = <<>>
    /\ fx = <<>>
NoRet == [kind |-> "NoRet", err |-> NoOut, map |-> <<>>]

InitLine ==
    /\ line \in LineInputs
    /\ out = NoOut
    /\ readable = TRUE
    /\ text = <<>>
    /\ contents = <<>>
    /\ pos = 0
    /\ res = <<>>
    /\ ret = NoRet
    /\ pc = "line"
    /\ RepoIdle

CallParseLine ==
    /\ pc = "line"
    /\ out' = parse_line(line)
    /\ pc' = "lineDone"
    /\ UNCHANGED <<line, readable, text, contents, pos, res, ret>>
    /\ UNCHANGED repoVars

NextLine == CallParseLine

SpecLine == InitLine /\ [][NextLine]_vars

----------------------------------------------------------------------------
(* parse *)

\* str::split_inclusive('\n'): the pieces of s, each up to and including
\* its line feed; cur is the piece being collected
RECURSIVE SplitInclusive(_, _)
SplitInclusive(s, cur) ==
    IF s = <<>>
    THEN IF cur = <<>> THEN <<>> ELSE <<cur>>
    ELSE IF Head(s) = NL
    THEN <<Append(cur, NL)>> \o SplitInclusive(Tail(s), <<>>)
    ELSE SplitInclusive(Tail(s), Append(cur, Head(s)))

\* str::strip_suffix(char) followed by the fallback to the unstripped piece
EndsWith(s, c) == Len(s) > 0 /\ s[Len(s)] = c
StripLineEnding(piece) ==
    IF ~EndsWith(piece, NL) THEN piece
    ELSE LET l == Sub(piece, 1, Len(piece) - 1)
         IN  IF EndsWith(l, CR) THEN Sub(l, 1, Len(l) - 1) ELSE l

\* str::lines
StrLines(s) ==
    LET pieces == SplitInclusive(s, <<>>)
    IN  [i \in 1..Len(pieces) |-> StripLineEnding(pieces[i])]

\* an insertion that keeps the value a key already has
Insert_KeepsFirst(m, k, v) ==
    [x \in DOMAIN m \cup {k} |-> IF x \in DOMAIN m THEN m[x] ELSE v]

\* HashMap::new and HashMap::insert; a map is a function from its keys
EmptyMap == <<>>
Insert(m, k, v) == [x \in DOMAIN m \cup {k} |-> IF x = k THEN v ELSE m[x]]

Ok(m) == [kind |-> "Ok", err |-> NoOut, map |-> m]
Err(e) == [kind |-> "Err", err |-> e, map |-> EmptyMap]
IoError == [kind |-> "Io", err |-> NoOut, map |-> EmptyMap]
Panicked == [kind |-> "Panic", err |-> NoOut, map |-> EmptyMap]

\* the lines the explored files are made of
FileLines ==
    { <<>>,
      <<" ", "#", "a", "=", "b">>,
      <<"a", "=", "b">>,
      <<"a", "=", SQ, "Z", SQ>>,
      <<"b", "=", DQ, BS, DQ, DQ>>,
      <<"b", "=", SQ>>,
      <<"a", " ", "b", "=", "b">>,
      <<"a", "=", "b", BS>> }

\* the text of a file: its lines, each ended by eol, the last one only if
\* final is true
RECURSIVE Join(_, _, _)
Join(ls, eol, final) ==
    IF ls = <<>> THEN <<>>
    ELSE IF Len(ls) = 1 THEN Head(ls) \o (IF final THEN eol ELSE <<>>)
    ELSE Head(ls) \o eol \o Join(Tail(ls), eol, final)

FileInputs ==
    {Join(ls, eol, final) :
        ls \in Strings(FileLines, MaxFileLines),
        eol \in {<<NL>>, <<CR, NL>>},
        final \in BOOLEAN}

Init ==
    /\ text \in FileInputs
    /\ readable \in BOOLEAN
    /\ line = <<>>
    /\ out = NoOut
    /\ contents = <<>>
    /\ pos = 0
    /\ res = EmptyMap
    /\ ret = NoRet
    /\ pc = "start"
    /\ RepoIdle

\* a failed read taken for an empty file
ReadFails_AsEmptyFile ==
    /\ pc = "start"
    /\ ~readable
    /\ contents' = <<>>
    /\ res' = <<>>
    /\ pc' = "loop"
    /\ UNCHANGED <<line, out, readable, text, pos, ret>>
    /\ UNCHANGED repoVars

\* fs::read_to_string(path)? fails: the error is returned at once
ReadFails ==
    /\ pc = "start"
    /\ ~readable
    /\ ret' = IoError
    /\ pc' = "done"
    /\ UNCHANGED <<line, out, readable, text, contents, pos, res>>
    /\ UNCHANGED repoVars

\* fs::read_to_string(path)? succeeds; res = HashMap::new()
ReadSucceeds ==
    /\ pc = "start"
    /\ readable
    /\ contents' = StrLines(text)
    /\ res' = EmptyMap
    /\ pc' = "loop"
    /\ UNCHANGED <<line, out, readable, text, pos, ret>>
    /\ UNCHANGED repoVars

\* a loop that skips a line parse_line rejects and goes on
ParseNextLine_SkipsBadLine ==
    /\ pc = "loop"
    /\ pos < Len(contents)
    /\ pos' = pos + 1
    /\ line' = contents[pos + 1]
    /\ out' = parse_line(line')
    /\ IF out'.kind = "Entry"
       THEN res' = Insert(res, out'.name, out'.value)
       ELSE UNCHANGED res
    /\ UNCHANGED <<readable, text, contents, ret, pc>>
    /\ UNCHANGED repoVars

\* one turn of the for loop over contents.lines()
ParseNextLine ==
    /\ pc = "loop"
    /\ pos < Len(contents)
    /\ pos' = pos + 1
    /\ line' = contents[pos + 1]
    /\ out' = parse_line(line')
    /\ IF out'.kind = "Entry"
       THEN /\ res' = Insert(res, out'.name, out'.value)
            /\ UNCHANGED <<ret, pc>>
       ELSE IF out'.kind = "Ignored"
       THEN UNCHANGED <<res, ret, pc>>
       ELSE IF out'.kind = "Panic"
       THEN /\ ret' = Panicked
            /\ pc' = "done"
            /\ UNCHANGED res
       ELSE /\ ret' = Err(out')
            /\ pc' = "done"
            /\ UNCHANGED res
    /\ UNCHANGED <<readable, text, contents>>
    /\ UNCHANGED repoVars

\* the loop is over: Ok(res)
ReturnOk ==
    /\ pc = "loop"
    /\ pos = Len(contents)
    /\ ret' = Ok(res)
    /\ pc' = "done"
    /\ UNCHANGED <<line, out, readable, text, contents, pos, res>>
    /\ UNCHANGED repoVars

Next == ReadFails \/ ReadSucceeds \/ ParseNextLine \/ ReturnOk

Spec == Init /\ [][Next]_vars

----------------------------------------------------------------------------
(* The vocabulary of the properties: the shape of a line, read off the     *)
(* line itself, and escape decoding one character at a time                *)

Called == pc = "lineDone"

IsError(o) == o.kind \in ErrorKinds

ValidName(s) == Len(s) >= 1 /\ \A i \in 1..Len(s) : s[i] \in WordChars

HasEq(l) == \E i \in 1..Len(l) : l[i] = "="

FirstEq(l) ==
    CHOOSE i \in 1..Len(l) : l[i] = "=" /\ \A j \in 1..(i - 1) : l[j] # "="

\* the line is name=rest
NameValue(l) == HasEq(l) /\ ValidName(Sub(l, 1, FirstEq(l) - 1))

NameOf(l) == Sub(l, 1, FirstEq(l) - 1)

ValueOf(l) == Sub(l, FirstEq(l) + 1, Len(l))

\* the line is empty, blank, or has '#' as its first non-blank character
BlankOrComment(l) ==
    \/ \A i \in 1..Len(l) : l[i] \in {" ", TAB, CR}
    \/ \E i \in 1..Len(l) :
           l[i] = "#" /\ \A j \in 1..(i - 1) : l[j] \in {" ", TAB, CR}

\* the value starts with neither quote
Unquoted(v) == v = <<>> \/ v[1] \notin {SQ, DQ}

\* the value starts with the quote q and ends with another q
Wrapped(v, q) == Len(v) >= 2 /\ v[1] = q /\ v[Len(v)] = q

\* the value starts with the quote q and does not end with another q
Unclosed(v, q) == Len(v) >= 1 /\ v[1] = q /\ (Len(v) = 1 \/ v[Len(v)] # q)

Between(v) == Sub(v, 2, Len(v) - 1)

\* rule 4 of the quoting rules, one character at a time: ok is false when
\* a backslash has nothing after it
RECURSIVE Rule4(_)
Rule4(s) ==
    IF s = <<>> THEN [ok |-> TRUE, str |-> <<>>]
    ELSE IF s[1] # BS
    THEN LET d == Rule4(Tail(s)) IN [ok |-> d.ok, str |-> <<s[1]>> \o d.str]
    ELSE IF Len(s) = 1 THEN [ok |-> FALSE, str |-> <<>>]
    ELSE LET d == Rule4(Sub(s, 3, Len(s)))
         IN  [ok |-> d.ok, str |-> <<s[2]>> \o d.str]

BadAt(ls, i) == IsError(parse_line(ls[i]))

HasBad(ls) == \E i \in 1..Len(ls) : BadAt(ls, i)

FirstBad(ls) ==
    CHOOSE i \in 1..Len(ls) : BadAt(ls, i) /\ \A j \in 1..(i - 1) : ~BadAt(ls, j)

----------------------------------------------------------------------------
(* Properties of parse *)

\* C1: parse hands the lines to parse_line in file order; when a line is
\* rejected it returns that line's error at once, with no mapping, having
\* parsed no later line, and it never goes past a rejected line.
C1_FirstErrorReturned ==
    /\ pos \in 0..Len(contents)
    /\ pos > 0 => line = contents[pos] /\ out = parse_line(line)
    /\ pc = "loop" => \A i \in 1..pos : ~BadAt(contents, i)
    /\ (pc = "done" /\ readable) =>
           IF HasBad(contents)
           THEN /\ ret = Err(parse_line(contents[FirstBad(contents)]))
                /\ ret.map = EmptyMap
                /\ pos = FirstBad(contents)
           ELSE ret.kind = "Ok" /\ pos = Len(contents)

\* an error after an entry was collected and before the last line
C1_Witness ==
    /\ pc = "done"
    /\ ret.kind = "Err"
    /\ res # EmptyMap
    /\ pos > 1
    /\ pos < Len(contents)

----------------------------------------------------------------------------
(* Properties of parse_line *)

\* name="inner\" : the backslash before the final quote has nothing else
\* to pair with
EscapedClose(l) ==
    /\ NameValue(l)
    /\ Wrapped(ValueOf(l), DQ)
    /\ ~Rule4(Between(ValueOf(l))).ok

\* C2 as stated: a double-quoted value whose final quote is escaped by the
\* backslash before it is rejected with MismatchedQuotes.
C2_EscapedCloseIsMismatched ==
    (Called /\ EscapedClose(line)) => out = YAIError("MismatchedQuotes", line)

\* C2: a double-quoted value whose final quote is escaped by the backslash
\* before it is rejected with BackslashAtEnd.
C2_EscapedCloseIsBackslashAtEnd ==
    (Called /\ EscapedClose(line)) => out = YAIError("BackslashAtEnd", line)

\* such a line with text before the backslash
C2_Witness ==
    /\ Called
    /\ EscapedClose(line)
    /\ Len(ValueOf(line)) >= 4
    /\ out.kind = "BackslashAtEnd"

\* the line is one whose value is escape-decoded: unquoted, or in double
\* quotes
Decoded(l) ==
    NameValue(l) /\ (Unquoted(ValueOf(l)) \/ Wrapped(ValueOf(l), DQ))

InnerOf(l) ==
    IF Unquoted(ValueOf(l)) THEN ValueOf(l) ELSE Between(ValueOf(l))

\* C3: in an unquoted or double-quoted value a backslash and the character
\* after it, whatever it is, give that character; BackslashAtEnd is
\* returned exactly when an unpaired backslash ends the inner content.
C3_EscapeAnyCharacter ==
    (Called /\ Decoded(line)) =>
        /\ out.kind = "BackslashAtEnd" <=> ~Rule4(InnerOf(line)).ok
        /\ Rule4(InnerOf(line)).ok =>
               out = Entry(NameOf(line), Rule4(InnerOf(line)).str)

\* C4: an unquoted value decodes to the escape decoding of the whole rest
\* of the line, nothing trimmed.
C4_UnquotedDecoded ==
    (Called /\ NameValue(line) /\ Unquoted(ValueOf(line))
            /\ Rule4(ValueOf(line)).ok) =>
        out = Entry(NameOf(line), Rule4(ValueOf(line)).str)

\* C5: a value in double quotes decodes to the escape decoding of the text
\* strictly between its first and last character.
C5_DoubleQuotedDecoded ==
    (Called /\ NameValue(line) /\ Wrapped(ValueOf(line), DQ)
            /\ Rule4(Between(ValueOf(line))).ok) =>
        out = Entry(NameOf(line), Rule4(Between(ValueOf(line))).str)

\* name='inner' with no single quote in inner
SingleQuotedPlain(l) ==
    /\ NameValue(l)
    /\ Wrapped(ValueOf(l), SQ)
    /\ ~\E i \in 2..(Len(ValueOf(l)) - 1) : ValueOf(l)[i] = SQ

\* C6: a value in single quotes with no single quote inside is returned
\* verbatim: backslashes and double quotes are kept, and a final backslash
\* is no error.
C6_SingleQuotedVerbatim ==
    (Called /\ SingleQuotedPlain(line)) =>
        out = Entry(NameOf(line), Between(ValueOf(line)))

\* a single-quoted value with a double quote in it and a backslash last
C6_Witness ==
    /\ Called
    /\ SingleQuotedPlain(line)
    /\ Len(ValueOf(line)) >= 4
    /\ ValueOf(line)[Len(ValueOf(line)) - 1] = BS
    /\ \E i \in 2..(Len(ValueOf(line)) - 1) : ValueOf(line)[i] = DQ
    /\ out.kind = "Entry"

\* the value opens with a quote and does not close with the same quote
Mismatched(l) ==
    NameValue(l) /\ (Unclosed(ValueOf(l), SQ) \/ Unclosed(ValueOf(l), DQ))

\* the other quoting rule: a single quote after the opening single quote
EmbeddedSingle(v) == v[1] = SQ /\ \E i \in 2..Len(v) : v[i] = SQ

\* C7: a value that opens with a quote and does not end with the same
\* quote is rejected with MismatchedQuotes unless it breaks another quoting
\* rule, and is never accepted.
C7_UnclosedIsMismatched ==
    (Called /\ Mismatched(line)) =>
        /\ out.kind \in {"MismatchedQuotes", "QuoteInQuoted"}
        /\ ~EmbeddedSingle(ValueOf(line)) =>
               out = YAIError("MismatchedQuotes", line)

\* the opening quote alone, and a value closed by the other quote
C7_Witness ==
    /\ Called
    /\ Mismatched(line)
    /\ out.kind = "MismatchedQuotes"
    /\ \/ Len(ValueOf(line)) = 1
       \/ ValueOf(line)[1] = DQ /\ ValueOf(line)[Len(ValueOf(line))] = SQ

\* C8: a value that starts and ends with a single quote is rejected with
\* QuoteInQuoted exactly when a single quote lies strictly between the two,
\* with or without a backslash before it.
C8_QuoteInQuoted ==
    (Called /\ NameValue(line) /\ Wrapped(ValueOf(line), SQ)) =>
        (out = YAIError("QuoteInQuoted", line)
            <=> \E i \in 2..(Len(ValueOf(line)) - 1) : ValueOf(line)[i] = SQ)

\* name='\'' : the embedded quote follows a backslash
C8_Witness ==
    /\ Called
    /\ NameValue(line)
    /\ Wrapped(ValueOf(line), SQ)
    /\ ValueOf(line) = <<SQ, BS, SQ, SQ>>
    /\ out.kind = "QuoteInQuoted"

\* C9: BadLine is returned exactly for the lines that are neither blank or
\* comment nor name=rest.
C9_BadLine ==
    Called =>
        (out = YAIError("BadLine", line)
            <=> ~BlankOrComment(line) /\ ~NameValue(line))

\* a blank inside the key
C9_Witness ==
    /\ Called
    /\ Len(line) >= 4
    /\ line[1] = "a"
    /\ line[2] = " "
    /\ HasEq(line)
    /\ out.kind = "BadLine"

\* C10: an empty line, a blank line and a line whose first non-blank
\* character is '#' are ignored, whatever follows the '#'.
C10_CommentIgnored ==
    (Called /\ BlankOrComment(line)) => out = Ignored

\* blanks, then a comment that reads like an assignment
C10_Witness ==
    /\ Called
    /\ Len(line) >= 4
    /\ line[1] = " "
    /\ line[2] = "#"
    /\ HasEq(line)
    /\ out = Ignored

----------------------------------------------------------------------------
(* Further properties of parse *)

\* the lines of ls that carry the name n
LinesOf(ls, n) ==
    {i \in 1..Len(ls) :
        parse_line(ls[i]).kind = "Entry" /\ parse_line(ls[i]).name = n}

Max(S) == CHOOSE x \in S : \A y \in S : y <= x

\* C11: the mapping parse returns has exactly the names of the Entry lines
\* as its keys, and each key has the value of the last line with that name.
C11_LastValueWins ==
    (pc = "done" /\ ret.kind = "Ok") =>
        /\ \A i \in 1..Len(contents) :
               parse_line(contents[i]).kind \in {"Entry", "Ignored"}
        /\ DOMAIN ret.map =
               {parse_line(contents[i]).name :
                    i \in {j \in 1..Len(contents) :
                               parse_line(contents[j]).kind = "Entry"}}
        /\ \A n \in DOMAIN ret.map :
               ret.map[n] =
                   parse_line(contents[Max(LinesOf(contents, n))]).value

\* a name given two different values, another name, and an ignored line
C11_Witness ==
    /\ pc = "done"
    /\ ret.kind = "Ok"
    /\ \E i, j \in 1..Len(contents) :
           /\ i < j
           /\ parse_line(contents[i]).kind = "Entry"
           /\ parse_line(contents[j]).kind = "Entry"
           /\ parse_line(contents[i]).name = parse_line(contents[j]).name
           /\ parse_line(contents[i]).value # parse_line(contents[j]).value
    /\ \E i \in 1..Len(contents) : parse_line(contents[i]).kind = "Ignored"

\* C12: when the file cannot be read parse returns an I/O failure, which is
\* none of the four parse errors; no line is parsed and no mapping returned.
C12_IoFailure ==
    ~readable =>
        /\ pos = 0
        /\ out = NoOut
        /\ contents = <<>>
        /\ pc \in {"start", "done"}
        /\ pc = "done" =>
               /\ ret = IoError
               /\ ret.kind \notin ErrorKinds \cup {"Ok", "Err"}
               /\ ret.map = EmptyMap

\* an unreadable file that is not empty
C12_Witness ==
    /\ pc = "done"
    /\ ~readable
    /\ ret = IoError
    /\ text # <<>>

----------------------------------------------------------------------------
(* Further properties of parse_line *)

\* C13: parse_line gives one outcome of Ignored, Entry and the four errors;
\* an error carries the line unchanged; it never panics, neither on the
\* opening quote nor on a slice.
C13_ClosedOutcomes ==
    Called =>
        /\ out.kind \in {"Ignored", "Entry"} \cup ErrorKinds
        /\ out.kind # "Panic"
        /\ IsError(out) => out.line = line

\* an error on a line with an escape pair before the unpaired backslash
C13_Witness ==
    /\ Called
    /\ IsError(out)
    /\ out.line = line
    /\ Len(line) >= 5
    /\ line[3] = BS
    /\ line[Len(line)] = BS

\* name='...'...: a single quote after the opening one and before the last
\* character, and a last character that is no single quote
BothSingleRulesBroken(l) ==
    /\ NameValue(l)
    /\ Unclosed(ValueOf(l), SQ)
    /\ \E i \in 2..(Len(ValueOf(l)) - 1) : ValueOf(l)[i] = SQ

\* C14: a single-quoted value that has an embedded single quote and does
\* not end with one is rejected with QuoteInQuoted, not MismatchedQuotes.
C14_QuoteInQuotedFirst ==
    (Called /\ BothSingleRulesBroken(line)) =>
        out = YAIError("QuoteInQuoted", line)

\* NAME='a'b and NAME='a'"
C14_Witness ==
    /\ Called
    /\ BothSingleRulesBroken(line)
    /\ Len(ValueOf(line)) = 4
    /\ ValueOf(line)[3] = SQ
    /\ out.kind = "QuoteInQuoted"

\* name="..."..." : double quotes strictly between the outer two, and no
\* backslash
EmbeddedDouble(l) ==
    /\ NameValue(l)
    /\ Wrapped(ValueOf(l), DQ)
    /\ \E i \in 2..(Len(ValueOf(l)) - 1) : ValueOf(l)[i] = DQ
    /\ \A i \in 1..Len(ValueOf(l)) : ValueOf(l)[i] # BS

\* C15: a double-quoted value with unescaped double quotes inside is
\* accepted, and the value returned keeps them.
C15_EmbeddedDoubleKept ==
    (Called /\ EmbeddedDouble(line)) =>
        out = Entry(NameOf(line), Between(ValueOf(line)))

\* NAME="a"a"
C15_Witness ==
    /\ Called
    /\ EmbeddedDouble(line)
    /\ ValueOf(line) = <<DQ, "a", DQ, "a", DQ>>
    /\ out = Entry(<<"a">>, <<"a", DQ, "a">>)

----------------------------------------------------------------------------
(* repo add (src/rust/bin.rs): run_command, copy_file, repo_add_deb,       *)
(* repo_add_yum.  What a subprocess or a system call does is the choice of *)
(* the host; file names stand for themselves.                              *)

Effect(op, arg, ok) == [op |-> op, arg |-> arg, ok |-> ok]

\* how a subprocess can end: Command::spawn fails, wait fails, or the exit
\* status is a success, an exit code, a signal, or neither
CommandOutcomes ==
    {"success", "spawn_failed", "wait_failed", "code", "signal", "no_code"}

\* a run_command that only looks at the exit code
run_command_IgnoresSignal(cmdvec, noop, o) ==
    IF noop
    THEN [fx |-> <<Effect("print", cmdvec, TRUE)>>,
          outcome |-> "skipped", exit |-> FALSE]
    ELSE IF o = "spawn_failed"
    THEN [fx |-> <<Effect("spawn", cmdvec, FALSE)>>,
          outcome |-> o, exit |-> TRUE]
    ELSE [fx |-> <<Effect("spawn", cmdvec, TRUE)>>,
          outcome |-> o, exit |-> o \notin {"success", "signal"}]

\* run_command: nothing but a message when noop; or_exit_e ends the program
\* when spawn or wait fails, expect_exit::exit when the status is no success
run_command(cmdvec, noop, o) ==
    IF noop
    THEN [fx |-> <<Effect("print", cmdvec, TRUE)>>,
          outcome |-> "skipped", exit |-> FALSE]
    ELSE IF o = "spawn_failed"
    THEN [fx |-> <<Effect("spawn", cmdvec, FALSE)>>,
          outcome |-> o, exit |-> TRUE]
    ELSE [fx |-> <<Effect("spawn", cmdvec, TRUE)>>,
          outcome |-> o, exit |-> o # "success"]

\* the system calls of read_source_file and of write_destination_file, in
\* the order they are made
ReadStages == <<"open_src", "read_src">>
WriteStages == <<"create", "metadata", "chmod", "chown", "write">>

\* how a copy can end: ok, or the call that fails
CopyOutcomes ==
    {"ok"} \cup {ReadStages[i] : i \in 1..Len(ReadStages)}
           \cup {WriteStages[i] : i \in 1..Len(WriteStages)}

\* the calls made when the call o fails: those up to o, the last one failing
MadeCalls(stages, path, o) ==
    LET n == IF \E i \in 1..Len(stages) : stages[i] = o
             THEN CHOOSE i \in 1..Len(stages) : stages[i] = o
             ELSE Len(stages)
    IN  [i \in 1..n |-> Effect(stages[i], path, stages[i] # o)]

\* a copy_file that looks at noop only after the file is written
copy_file_NoopTooLate(fname, srcdir, dstdir, noop, o) ==
    LET src == <<srcdir, fname>>
        dst == <<dstdir, fname>>
        stages == ReadStages \o WriteStages
        failed == \E i \in 1..Len(stages) : stages[i] = o
    IN  [fx |-> <<Effect("print", <<src, dst>>, TRUE)>>
                    \o MadeCalls(ReadStages, src, o)
                    \o (IF o \in {"open_src", "read_src"} THEN <<>>
                        ELSE MadeCalls(WriteStages, dst, o)),
         outcome |-> IF failed THEN o ELSE "ok",
         exit |-> failed]

\* copy_file: the source is opened and read in any case; the destination
\* is opened, examined, chmoded, chowned and written unless noop
copy_file(fname, srcdir, dstdir, noop, o) ==
    LET src == <<srcdir, fname>>
        dst == <<dstdir, fname>>
        readFailed == o \in {"open_src", "read_src"}
        writeFailed == ~noop /\ \E i \in 1..Len(WriteStages) : WriteStages[i] = o
    IN  [fx |-> <<Effect("print", <<src, dst>>, TRUE)>>
                    \o MadeCalls(ReadStages, src, o)
                    \o (IF readFailed THEN <<>>
                        ELSE IF noop THEN <<Effect("print", dst, TRUE)>>
                        ELSE MadeCalls(WriteStages, dst, o)),
         outcome |-> IF readFailed \/ writeFailed THEN o ELSE "ok",
         exit |-> readFailed \/ writeFailed]

\* the command lines
AptGetUpdate == <<"apt-get", "update">>
PackageInstall == <<"commands.package.install">>
YumInstallCerts ==
    <<"yum", "--disablerepo=storpool-*", "install", "-q", "-y",
      "ca-certificates">>
Rpmkeys == <<"rpmkeys", "--import", "/etc/pki/rpm-gpg/keyring">>
YumCleanMetadata ==
    <<"yum", "--disablerepo=*", "--enablerepo=storpool-repotype", "clean",
      "metadata">>

\* the packages a DebRepo may ask for
Packages == {"ca-certificates", "apt-transport-https"}

Configs ==
    [noop : BOOLEAN,
     repo : {"Deb", "Yum"},
     req_packages : Strings(Packages, MaxReqPackages),
     rpmkeys : BOOLEAN]

InitRepo ==
    /\ config \in Configs
    /\ rpc = "start"
    /\ calls = <<>>
    /\ fx = <<>>
    /\ line = <<>>
    /\ out = NoOut
    /\ readable = TRUE
    /\ text = <<>>
    /\ contents = <<>>
    /\ pos = 0
    /\ res = <<>>
    /\ ret = NoRet
    /\ pc = "repo"

\* what a step of repo_add_deb or repo_add_yum leaves behind: the closure
\* name was called and did r, and the program goes on to next unless r
\* ended it
Took(name, r, next) ==
    /\ calls' = Append(calls, [name |-> name, outcome |-> r.outcome,
                               exited |-> r.exit])
    /\ fx' = fx \o r.fx
    /\ rpc' = IF r.exit THEN "exit" ELSE next

\* cmd_repo_add: the variant directory is examined, then the repository
\* kind decides; repo_add_deb starts with the packages only if there are any
CmdRepoAdd ==
    /\ rpc = "start"
    /\ \E vdir \in {"dir", "not_dir", "error"} :
           rpc' = IF vdir # "dir" THEN "exit"
                  ELSE IF config.repo = "Yum" THEN "yum_install_certs"
                  ELSE IF config.req_packages # <<>> THEN "deb_apt_update"
                  ELSE "deb_copy_sources"
    /\ UNCHANGED <<config, calls, fx>>
    /\ UNCHANGED parseVars

\* repo_add_deb: run_apt_update() before install_req_packages()
RunAptUpdateFirst ==
    /\ rpc = "deb_apt_update"
    /\ UNCHANGED config
    /\ UNCHANGED parseVars
    /\ \E o \in CommandOutcomes :
        Took("run_apt_update",
             run_command(AptGetUpdate, config.noop, o), "deb_install")

InstallReqPackages ==
    /\ rpc = "deb_install"
    /\ UNCHANGED config
    /\ UNCHANGED parseVars
    /\ \E o \in CommandOutcomes :
        Took("install_req_packages",
             run_command(PackageInstall \o config.req_packages,
                         config.noop, o),
             "deb_copy_sources")

CopySourcesFile ==
    /\ rpc = "deb_copy_sources"
    /\ UNCHANGED config
    /\ UNCHANGED parseVars
    /\ \E o \in CopyOutcomes :
        Took("copy_sources_file",
             copy_file("sources", "vdir", "/etc/apt/sources.list.d",
                       config.noop, o),
             "deb_copy_keyring")

DebCopyKeyringFile ==
    /\ rpc = "deb_copy_keyring"
    /\ UNCHANGED config
    /\ UNCHANGED parseVars
    /\ \E o \in CopyOutcomes :
        Took("copy_keyring_file",
             copy_file("keyring", "vdir", "/usr/share/keyrings",
                       config.noop, o),
             "deb_apt_update_last")

RunAptUpdateLast ==
    /\ rpc = "deb_apt_update_last"
    /\ UNCHANGED config
    /\ UNCHANGED parseVars
    /\ \E o \in CommandOutcomes :
        Took("run_apt_update",
             run_command(AptGetUpdate, config.noop, o), "done")

\* repo_add_yum
RunYumInstallCerts ==
    /\ rpc = "yum_install_certs"
    /\ UNCHANGED config
    /\ UNCHANGED parseVars
    /\ \E o \in CommandOutcomes :
        Took("run_yum_install_certs",
             run_command(YumInstallCerts, config.noop, o), "yum_copy_yumdef")

CopyYumdefFile ==
    /\ rpc = "yum_copy_yumdef"
    /\ UNCHANGED config
    /\ UNCHANGED parseVars
    /\ \E o \in CopyOutcomes :
        Took("copy_yumdef_file",
             copy_file("yumdef", "vdir", "/etc/yum.repos.d", config.noop, o),
             "yum_copy_keyring")

YumCopyKeyringFile ==
    /\ rpc = "yum_copy_keyring"
    /\ UNCHANGED config
    /\ UNCHANGED parseVars
    /\ \E o \in CopyOutcomes :
        Took("copy_keyring_file",
             copy_file("keyring", "vdir", "/etc/pki/rpm-gpg", config.noop, o),
             "yum_rpmkeys")

\* run_rpmkeys: only where /usr/bin/rpmkeys exists
RunRpmkeys ==
    /\ rpc = "yum_rpmkeys"
    /\ UNCHANGED config
    /\ UNCHANGED parseVars
    /\ \E o \in CommandOutcomes :
        Took("run_rpmkeys",
             IF config.rpmkeys
             THEN run_command(Rpmkeys, config.noop, o)
             ELSE [fx |-> <<>>, outcome |-> "skipped", exit |-> FALSE],
             "yum_clean_metadata")

RunYumCleanMetadata ==
    /\ rpc = "yum_clean_metadata"
    /\ UNCHANGED config
    /\ UNCHANGED parseVars
    /\ \E o \in CommandOutcomes :
        Took("run_yum_clean_metadata",
             run_command(YumCleanMetadata, config.noop, o), "done")

NextRepo ==
    \/ CmdRepoAdd
    \/ RunAptUpdateFirst
    \/ InstallReqPackages
    \/ CopySourcesFile
    \/ DebCopyKeyringFile
    \/ RunAptUpdateLast
    \/ RunYumInstallCerts
    \/ CopyYumdefFile
    \/ YumCopyKeyringFile
    \/ RunRpmkeys
    \/ RunYumCleanMetadata

SpecRepo == InitRepo /\ [][NextRepo]_vars

----------------------------------------------------------------------------
(* Properties of repo add *)

CopySteps == {"copy_sources_file", "copy_keyring_file", "copy_yumdef_file"}

\* the positions of fx where op is one of ops
Where(ops) == {i \in 1..Len(fx) : fx[i].op \in ops}

\* the steps of a whole run of repo_add_yum
YumSteps ==
    <<"run_yum_install_certs", "copy_yumdef_file", "copy_keyring_file",
      "run_rpmkeys", "run_yum_clean_metadata">>

\* the steps of a whole run of repo_add_deb
DebSteps(cfg) ==
    (IF cfg.req_packages # <<>>
     THEN <<"run_apt_update", "install_req_packages">> ELSE <<>>)
        \o <<"copy_sources_file", "copy_keyring_file", "run_apt_update">>

\* the commands of a whole run of repo_add_deb
DebCommands(cfg) ==
    (IF cfg.req_packages # <<>>
     THEN <<AptGetUpdate, PackageInstall \o cfg.req_packages>> ELSE <<>>)
        \o <<AptGetUpdate>>

StepsOf(cfg) == IF cfg.repo = "Deb" THEN DebSteps(cfg) ELSE YumSteps

\* C16: with noop no subprocess is started and no destination file is
\* opened, changed or written; each copy still opens and reads its source
\* and the program ends only if that fails; a whole repo add goes through
\* all its steps that way, for Deb and for Yum.
C16_NoopChangesNothing ==
    config.noop =>
        /\ \A i \in 1..Len(fx) : fx[i].op \in {"print", "open_src", "read_src"}
        /\ Cardinality(Where({"open_src"}))
               = Cardinality({i \in 1..Len(calls) : calls[i].name \in CopySteps})
        /\ \A i \in 1..Len(calls) :
               calls[i].exited <=>
                   /\ calls[i].name \in CopySteps
                   /\ calls[i].outcome \in {"open_src", "read_src"}
        /\ rpc = "done" =>
               /\ Len(calls) = Len(StepsOf(config))
               /\ \A i \in 1..Len(calls) : calls[i].name = StepsOf(config)[i]

\* a whole run with noop through the five steps of repo_add_yum
C16_Witness ==
    /\ config.noop
    /\ config.repo = "Yum"
    /\ config.rpmkeys
    /\ rpc = "done"
    /\ Len(calls) = 5
    /\ Len(fx) > 0

\* C17: repo_add_deb goes through its steps in one order: with packages
\* asked for, apt-get update and the install command before any copy, and
\* neither of them without; then the sources file, the keyring file, and
\* apt-get update last; a step that fails ends the program, so a step is
\* only started when all before it succeeded.
C17_DebOrder ==
    config.repo = "Deb" =>
        /\ Len(calls) <= Len(DebSteps(config))
        /\ \A i \in 1..Len(calls) : calls[i].name = DebSteps(config)[i]
        /\ \A i \in 1..Len(calls) :
               /\ calls[i].outcome \notin {"success", "ok", "skipped"}
                      => calls[i].exited
               /\ calls[i].exited => i = Len(calls) /\ rpc = "exit"
        /\ rpc = "done" => Len(calls) = Len(DebSteps(config))
        /\ ~config.noop =>
               /\ Cardinality(Where({"spawn"})) <= Len(DebCommands(config))
               /\ \A i \in Where({"spawn"}) :
                      fx[i].arg = DebCommands(config)[
                          Cardinality({j \in Where({"spawn"}) : j <= i})]
               /\ \A i \in Where({"open_src"}) :
                      Cardinality({j \in Where({"spawn"}) : j < i})
                          = Len(DebCommands(config)) - 1
               /\ \A i \in Where({"spawn"}), j \in Where({"open_src"}) :
                      (i > j /\ fx[j].arg[2] = "keyring") =>
                          /\ \E k \in Where({"write"}) :
                                 k < i /\ fx[k].ok /\ fx[k].arg[2] = "sources"
                          /\ \E k \in Where({"write"}) :
                                 k < i /\ fx[k].ok /\ fx[k].arg[2] = "keyring"
                          /\ Cardinality({k \in Where({"spawn"}) : k <= i})
                                 = Len(DebCommands(config))

\* the install command is killed by a signal after apt-get update succeeded
C17_Witness ==
    /\ config.repo = "Deb"
    /\ ~config.noop
    /\ Len(config.req_packages) = 2
    /\ rpc = "exit"
    /\ Len(calls) = 2
    /\ calls[2].outcome = "signal"
    /\ Len(fx) = 2

====
